---- MODULE Spec2Model ----
(***************************************************************************)
(* Model of the video ingestion pipeline (handlerUploadVideo) and of the   *)
(* thumbnail upload (handlerUploadThumbnail) that shares the metadata      *)
(* store with it.                                                          *)
(*                                                                         *)
(* Strings are sequences of tokens; separators ("/", ".", ",", ";", "=")   *)
(* are tokens of their own, so that joining and splitting are computed.    *)
(***************************************************************************)
EXTENDS Integers, Sequences, FiniteSets, TLC

\* Model bounds.
MaxRequests == 2      \* upload requests started over a run
MaxThumbs == 1        \* thumbnail requests started over a run
NumNames == 2         \* distinct random suffixes os.CreateTemp can draw
NumRands == 2         \* distinct outcomes of rand.Read
MaxLen == 2           \* longest bucket and key given to the locator functions
MaxDim == 170         \* largest width and height given to the classification

\* Program constants.  Sizes are counted in GiB: 10 << 30 bytes = 10 GiB.
maxMemory == 10
presignSeconds == 60

Handlers == {"h1", "h2"}          \* concurrent executions of handlerUploadVideo

NoLimit == -1
Null == <<"<nil>">>               \* a nil *string / absent value
NoFile == <<>>

s3Bucket == <<"tubely-bucket">>   \* cfg.s3Bucket
port == "8091"                    \* cfg.port
VideoIDs == {"v1"}                \* identifiers present in the metadata store
Users == {"u1", "u2"}

----------------------------------------------------------------------------
\* String helpers (strings.Split / strings.Join on token sequences).

RECURSIVE Split(_, _)
Split(s, sep) ==
    IF \A i \in 1..Len(s) : s[i] # sep
    THEN <<s>>
    ELSE LET k == CHOOSE i \in 1..Len(s) :
                      s[i] = sep /\ \A j \in 1..(i-1) : s[j] # sep
         IN  <<SubSeq(s, 1, k-1)>> \o Split(SubSeq(s, k+1, Len(s)), sep)

RECURSIVE Join(_, _)
Join(parts, sep) ==
    IF Len(parts) = 0 THEN <<>>
    ELSE IF Len(parts) = 1 THEN parts[1]
    ELSE parts[1] \o <<sep>> \o Join(Tail(parts), sep)

\* src/assets.go getFileExtension
getFileExtension(mediaType) ==
    LET parts == Split(mediaType, "/")
    IN  IF Len(parts) # 2 THEN <<"bin">> ELSE parts[2]

\* mime.ParseMediaType on a Content-Type header value: the part before the
\* first ";" lower-cased must be token or token/token, every parameter must
\* be attr=value (one trailing ";" is ignored).
Lower(tok) ==
    CASE tok = "VIDEO" -> "video"
      [] tok = "MP4"   -> "mp4"
      [] OTHER         -> tok

IsWord(tok) == tok \notin {"/", ";", "=", ",", "."}

ParseMediaType(v) ==
    LET parts  == Split(v, ";")
        base   == [i \in 1..Len(parts[1]) |-> Lower(parts[1][i])]
        params == Tail(parts)
        baseOK == \/ Len(base) = 1 /\ IsWord(base[1])
                  \/ /\ Len(base) = 3
                     /\ IsWord(base[1]) /\ base[2] = "/" /\ IsWord(base[3])
        paramOK(q) == Len(q) = 3 /\ IsWord(q[1]) /\ q[2] = "=" /\ IsWord(q[3])
        paramsOK == \/ params = << <<>> >>
                    \/ \A i \in 1..Len(params) : paramOK(params[i])
    IN  IF ~baseOK THEN [mediatype |-> <<>>, err |-> TRUE]
        ELSE [mediatype |-> base, err |-> ~paramsOK]

\* Content-Type values a client may declare for the "video" part.
ContentTypes ==
    { <<"video", "/", "mp4">>,
      <<"VIDEO", "/", "MP4">>,
      <<"video", "/", "mp4", ";", "codecs", "=", "avc1">>,
      <<"video", "/", "mp4", ";", "codecs">>,
      <<"video", "/", "webm">>,
      <<"image", "/", "png">>,
      <<"video", "/">>,
      <<>> }

\* Content-Type values a client may declare for the "thumbnail" part.
ThumbTypes == { <<"image", "/", "png">>, <<"png">> }

\* http.MaxBytesReader: a reader over the same bytes that fails past n.
MaxBytesReader(body, n) == [body EXCEPT !.limit = n]

\* Reading a body to its end succeeds unless the reader's limit is exceeded.
ReadAll(body) == body.limit = NoLimit \/ body.size <= body.limit

\* Outcomes of rand.Read.
Rands == 1..NumRands

\* Body sizes around the ceiling.
BodySizes == {maxMemory, maxMemory + 1}

\* Width and height of a video stream.
Dims == { <<1920, 1080>>, <<1080, 1920>>, <<1000, 1000>> }

\* One entry of the "streams" array printed by ffprobe -show_streams, which
\* lists every stream of the file.  Only a video stream has a width and a
\* height; json.Unmarshal leaves the fields of the others at zero.
VideoStream(width, height) ==
    [codec_type |-> "video", width |-> width, height |-> height]
AudioStream == [codec_type |-> "audio", width |-> 0, height |-> 0]

\* What one run of ffprobe gives: its exit, whether its output is JSON, and
\* the streams it lists.
ProbeOutput(exitOK, jsonOK, streams) ==
    [exitOK |-> exitOK, jsonOK |-> jsonOK, streams |-> streams]
NoProbe == ProbeOutput(FALSE, FALSE, <<>>)
ProbeRunFails == ProbeOutput(FALSE, TRUE, <<>>)
ProbeOutputs ==
    { ProbeRunFails, ProbeOutput(TRUE, FALSE, <<>>), ProbeOutput(TRUE, TRUE, <<>>) }
      \cup { ProbeOutput(TRUE, TRUE, <<VideoStream(d[1], d[2])>>) : d \in Dims }
      \cup { ProbeOutput(TRUE, TRUE, <<AudioStream>>),
             ProbeOutput(TRUE, TRUE, <<AudioStream, VideoStream(1920, 1080)>>),
             ProbeOutput(TRUE, TRUE, <<VideoStream(1080, 1920), AudioStream>>) }

\* Two kinds of run are explored.  In a concurrent run both executions of
\* handlerUploadVideo and the thumbnail upload interleave, on one body size,
\* one geometry, one probe failure, three declared media types and one
\* thumbnail type.  In a
\* serial run one execution of handlerUploadVideo at a time interleaves with
\* the thumbnail upload, on every input, with one outcome of rand.Read.
ConcurrentInputs ==
    [ handlers |-> Handlers, sizes |-> {maxMemory},
      probes |-> { ProbeRunFails,
                   ProbeOutput(TRUE, TRUE, <<VideoStream(1920, 1080)>>) },
      contentTypes |-> { <<"video", "/", "mp4">>, <<"image", "/", "png">>, <<>> },
      thumbTypes |-> { <<"image", "/", "png">> },
      rands |-> Rands ]
SerialInputs ==
    [ handlers |-> {"h1"}, sizes |-> BodySizes, probes |-> ProbeOutputs,
      contentTypes |-> ContentTypes, thumbTypes |-> ThumbTypes,
      rands |-> {1} ]

\* The float64 quotient width/height compared with the constant n/d (d > 0).
\* With a zero height the quotient is +Inf, -Inf or NaN; every comparison
\* with NaN is false.
RatioGeq(width, height, n, d) ==
    IF height > 0 THEN width * d >= n * height
    ELSE IF height < 0 THEN width * d <= n * height
    ELSE width > 0
RatioLeq(width, height, n, d) ==
    IF height > 0 THEN width * d <= n * height
    ELSE IF height < 0 THEN width * d >= n * height
    ELSE width < 0

\* normalizedRatio with a 16:9 band that has no upper end.
normalizedRatioOpenBand(width, height) ==
    IF RatioGeq(width, height, 151, 90)
    THEN "16:9"
    ELSE IF RatioGeq(width, height, 37, 80) /\ RatioLeq(width, height, 53, 80)
    THEN "9:16"
    ELSE "other"

\* getVideoAspectRatio, lines 282-299: ratio = width/height compared with
\* 16/9 -+ 0.1 = [151/90, 169/90] and 9/16 -+ 0.1 = [37/80, 53/80].
normalizedRatio(width, height) ==
    IF RatioGeq(width, height, 151, 90) /\ RatioLeq(width, height, 169, 90)
    THEN "16:9"
    ELSE IF RatioGeq(width, height, 37, 80) /\ RatioLeq(width, height, 53, 80)
    THEN "9:16"
    ELSE "other"

getAspectRatioPrefix(aspectRatio) ==
    CASE aspectRatio = "16:9" -> "landscape"
      [] aspectRatio = "9:16" -> "portrait"
      [] OTHER                -> "other"

\* processVideoForFastStart, line 314: the output path.
ProcessingPath(filePath) == filePath \o <<".processing">>

\* os.CreateTemp("", "tubely-upload.mp4"): the pattern has no "*", so the
\* random suffix is appended to it.
Names == 1..NumNames
TempPath(n) == <<"tubely-upload.mp4", ToString(n)>>

\* base64.RawURLEncoding of the random bytes: one token per outcome.
EncodeToString(b) == <<"rnd" , ToString(b)>>

\* generatePresignedURL issuing every URL for one hour.
generatePresignedURLOneHour(bucket, key, expireTime) ==
    <<"https:", "/", "/">> \o bucket \o <<".s3.amazonaws.com", "/">> \o key
        \o <<"?", "X-Amz-Expires", "=", ToString(3600)>>

\* generatePresignedURL: a GET URL for bucket and key valid for expireTime.
generatePresignedURL(bucket, key, expireTime) ==
    <<"https:", "/", "/">> \o bucket \o <<".s3.amazonaws.com", "/">> \o key
        \o <<"?", "X-Amz-Expires", "=", ToString(expireTime)>>

----------------------------------------------------------------------------
VARIABLES
    db,        \* metadata store: video ID -> record
    s3,        \* durable object store: the objects whose PutObject completed
    fs,        \* temporary directory: the files that exist
    assets,    \* files under cfg.assetsRoot
    req,       \* per execution of handlerUploadVideo: position and locals
    thumb,     \* the execution of handlerUploadThumbnail: position and locals
    started,   \* upload requests started so far
    thumbs,    \* thumbnail requests started so far
    inputs,    \* what the clients and tools of this run may produce
    applied    \* a function applied on its own: its arguments and its result

vars == <<db, s3, fs, assets, req, thumb, started, thumbs, inputs, applied>>

NoVideo == [ID |-> "", UserID |-> "", VideoURL |-> Null, ThumbnailURL |-> Null]

IdleReq ==
    [ pc |-> "idle", videoID |-> "", video |-> NoVideo, userID |-> "", size |-> 0,
      contentType |-> Null, mediatype |-> <<>>, fileExtension |-> <<>>, tf |-> NoFile, fast |-> NoFile,
      base64Rand |-> <<>>, probeData |-> NoProbe, aspectRatio |-> "",
      fileKey |-> <<>>,
      open |-> {}, defers |-> <<>>,
      status |-> 0, failedAt |-> "", resp |-> NoVideo, log |-> <<>> ]

IdleThumb ==
    [ pc |-> "idle", video |-> NoVideo, mediaType |-> <<>>, fileName |-> <<>>,
      status |-> 0 ]

InitStore ==
    /\ db = [v \in VideoIDs |->
                [ID |-> v, UserID |-> "u1", VideoURL |-> Null, ThumbnailURL |-> Null]]
    /\ s3 = {}
    /\ fs = {}
    /\ assets = {}
    /\ req = [h \in Handlers |-> IdleReq]
    /\ thumb = IdleThumb
    /\ started = 0
    /\ thumbs = 0

\* No function is being applied on its own.
NoCall == [fn |-> "none"]

Init == InitStore /\ inputs = ConcurrentInputs /\ applied = NoCall
InitSerial == InitStore /\ inputs = SerialInputs /\ applied = NoCall

\* The metadata store (internal/database): get returns the stored record,
\* update replaces the stored record of video.ID by the record it is given.
GetVideoDB(store, videoID) == store[videoID]
UpdateVideoDB(store, video) == [store EXCEPT ![video.ID] = video]

\* Paths of the files that exist in the temporary directory.
FsPaths == {e.path : e \in fs}
\* os.Remove(path)
Remove(files, path) == {e \in files : e.path # path}
\* A file written at path (replacing what was there).
WriteFile(files, path, kind) ==
    Remove(files, path) \cup {[path |-> path, kind |-> kind]}

Event(op, arg, ok) == [op |-> op, arg |-> arg, ok |-> ok]
Logged(rq, op, arg, ok) == [rq EXCEPT !.log = Append(rq.log, Event(op, arg, ok))]

\* Once the handler has returned its locals are gone and the execution
\* context is free for the next request.
Returned(rq) == IdleReq

\* respondWithError / respondWithJSON followed by return.  What is left of
\* the execution is the request, the response, the deferred calls with the
\* files and handles they act on, what the probe printed when it was the
\* last thing run, and the record of what it did; the other locals are not
\* read again.
Respond(rq, code, stage) ==
    [IdleReq EXCEPT !.pc = "return", !.status = code, !.failedAt = stage,
                    !.videoID = rq.videoID, !.userID = rq.userID,
                    !.size = rq.size, !.contentType = rq.contentType,
                    !.tf = rq.tf, !.fast = rq.fast, !.open = rq.open,
                    !.probeData = rq.probeData,
                    !.defers = rq.defers, !.resp = rq.resp, !.log = rq.log]

Defer(rq, call) == [rq EXCEPT !.defers = Append(rq.defers, call)]

----------------------------------------------------------------------------
\* handlerUploadVideo.  Each action is a run of consecutive statements that
\* ends with the statement acting on the store, the object store or the
\* temporary directory; the statements before it touch the request's own
\* locals only.  Every error return inside the run is a branch of the action.

\* Lines 116-129: parse the video ID and fetch the record.
GetVideo(h) ==
    /\ h \in inputs.handlers
    /\ req[h].pc = "idle"
    /\ started < MaxRequests
    /\ started' = started + 1
    /\ \E videoIDString \in VideoIDs \cup {"v0", "not-a-uuid"}, dbOK \in BOOLEAN :
         LET rq == [IdleReq EXCEPT !.videoID = videoIDString]
         IN  req' = [req EXCEPT ![h] =
                IF videoIDString = "not-a-uuid"
                THEN Respond(rq, 400, "id")
                ELSE IF videoIDString \notin DOMAIN db \/ ~dbOK
                THEN Respond(rq, 404, "getVideo")
                ELSE [rq EXCEPT !.pc = "auth",
                                !.video = GetVideoDB(db, videoIDString)]]
    /\ UNCHANGED <<db, s3, fs, assets, thumb, thumbs, inputs, applied>>

\* Authorize without the comparison of line 144.
AuthorizeAnyUser(rq, token) ==
    IF token = "none"
    THEN Respond(rq, 401, "token")
    ELSE IF token = "invalid"
    THEN Respond(rq, 401, "jwt")
    ELSE [rq EXCEPT !.userID = token, !.pc = "formFile"]

\* Lines 131-147: authenticate the caller and compare it with the owner.
Authorize(rq, token) ==
    IF token = "none"
    THEN Respond(rq, 401, "token")
    ELSE IF token = "invalid"
    THEN Respond(rq, 401, "jwt")
    ELSE LET r1 == [rq EXCEPT !.userID = token]
         IN  IF r1.video.UserID # r1.userID
             THEN Respond(r1, 401, "owner")
             ELSE [r1 EXCEPT !.pc = "formFile"]

\* Lines 149-157: the limiting reader is built and dropped; FormFile reads
\* r.Body itself.
FormFile(rq, size, hasPart) ==
    LET body    == [size |-> size, limit |-> NoLimit]
        limited == MaxBytesReader(body, maxMemory)
    IN  IF ~ReadAll(body) \/ ~hasPart
        THEN Respond(rq, 400, "formFile")
        ELSE Defer([rq EXCEPT !.pc = "mediaType", !.size = size,
                              !.open = rq.open \cup {"f"}],
                   [call |-> "Close", arg |-> <<"f">>])

\* ValidateMediaType with the error of mime.ParseMediaType ignored.
ValidateMediaTypeErrorIgnored(rq, contentType) ==
    LET p  == ParseMediaType(contentType)
        r1 == [rq EXCEPT !.contentType = contentType]
    IN  IF p.mediatype # <<"video", "/", "mp4">>
        THEN Respond(r1, 400, "mediaType")
        ELSE [r1 EXCEPT !.pc = "createTemp", !.mediatype = p.mediatype,
                        !.fileExtension = getFileExtension(p.mediatype)]

\* Lines 159-171: the declared media type must parse to video/mp4.
ValidateMediaType(rq, contentType) ==
    LET p  == ParseMediaType(contentType)
        r1 == [rq EXCEPT !.contentType = contentType]
    IN  IF p.err
        THEN Respond(r1, 400, "parseMediaType")
        ELSE IF p.mediatype # <<"video", "/", "mp4">>
        THEN Respond(r1, 400, "mediaType")
        ELSE [r1 EXCEPT !.pc = "createTemp", !.mediatype = p.mediatype,
                        !.fileExtension = getFileExtension(p.mediatype)]

\* Lines 131-171: everything the handler checks before it creates a file.
Validate(h) ==
    /\ req[h].pc = "auth"
    /\ \E token \in Users \cup {"none", "invalid"},
          size \in inputs.sizes, hasPart \in BOOLEAN,
          contentType \in inputs.contentTypes :
         LET r1 == Authorize(req[h], token)
             r2 == IF r1.pc = "formFile" THEN FormFile(r1, size, hasPart) ELSE r1
             r3 == IF r2.pc = "mediaType" THEN ValidateMediaType(r2, contentType)
                   ELSE r2
         IN  req' = [req EXCEPT ![h] = r3]
    /\ UNCHANGED <<db, s3, fs, assets, thumb, started, thumbs, inputs, applied>>

\* A temporary name drawn without regard to the files that exist.
AnyName == Names

\* os.CreateTemp opens with O_EXCL: the name it returns did not exist.
FreeNames == {n \in Names : TempPath(n) \notin FsPaths}

\* CreateTemp with the two deferred calls registered in the other order.
CreateTempCloseDeferredFirst(h) ==
    /\ req[h].pc = "createTemp"
    /\ LET rq == req[h]
       IN  \/ /\ req' = [req EXCEPT ![h] = Respond(rq, 500, "createTemp")]
              /\ fs' = fs
           \/ \E n \in FreeNames :
                LET path == TempPath(n)
                    r1 == [rq EXCEPT !.pc = "copy", !.tf = path,
                                     !.open = rq.open \cup {"tf"}]
                    r2 == Defer(r1, [call |-> "Close", arg |-> <<"tf">>])
                    r3 == Defer(r2, [call |-> "Remove", arg |-> path])
                IN  /\ req' = [req EXCEPT ![h] = Logged(r3, "CreateTemp", path, TRUE)]
                    /\ fs' = WriteFile(fs, path, "staged")
    /\ UNCHANGED <<db, s3, assets, thumb, started, thumbs, inputs, applied>>

\* Lines 173-180: create the temporary file, defer its removal and close.
CreateTemp(h) ==
    /\ req[h].pc = "createTemp"
    /\ LET rq == req[h]
       IN  \/ /\ req' = [req EXCEPT ![h] = Respond(rq, 500, "createTemp")]
              /\ fs' = fs
           \/ \E n \in FreeNames :
                LET path == TempPath(n)
                    r1 == [rq EXCEPT !.pc = "copy", !.tf = path,
                                     !.open = rq.open \cup {"tf"}]
                    r2 == Defer(r1, [call |-> "Remove", arg |-> path])
                    r3 == Defer(r2, [call |-> "Close", arg |-> <<"tf">>])
                IN  /\ req' = [req EXCEPT ![h] = Logged(r3, "CreateTemp", path, TRUE)]
                    /\ fs' = WriteFile(fs, path, "staged")
    /\ UNCHANGED <<db, s3, assets, thumb, started, thumbs, inputs, applied>>

\* CopyToTemp answering a failed copy with 400.
CopyToTempBadRequest(h) ==
    /\ req[h].pc = "copy"
    /\ \E copyOK \in BOOLEAN, seekOK \in BOOLEAN :
         LET r1 == Logged(req[h], "Copy", req[h].tf, copyOK)
             r2 == Logged(r1, "Seek", r1.tf, seekOK)
         IN  req' = [req EXCEPT ![h] =
                IF ~copyOK THEN Respond(r1, 400, "copy")
                ELSE IF ~seekOK THEN Respond(r2, 500, "seek")
                ELSE [r2 EXCEPT !.pc = "fastStart"]]
    /\ UNCHANGED <<db, s3, fs, assets, thumb, started, thumbs, inputs, applied>>

\* Lines 182-192: copy the upload into the temporary file and rewind it.
CopyToTemp(h) ==
    /\ req[h].pc = "copy"
    /\ \E copyOK \in BOOLEAN, seekOK \in BOOLEAN :
         LET r1 == Logged(req[h], "Copy", req[h].tf, copyOK)
             r2 == Logged(r1, "Seek", r1.tf, seekOK)
         IN  req' = [req EXCEPT ![h] =
                IF ~copyOK THEN Respond(r1, 500, "copy")
                ELSE IF ~seekOK THEN Respond(r2, 500, "seek")
                ELSE [r2 EXCEPT !.pc = "fastStart"]]
    /\ UNCHANGED <<db, s3, fs, assets, thumb, started, thumbs, inputs, applied>>

\* processVideoForFastStart with the return of line 198 missing.
processVideoNoReturn(h) ==
    /\ req[h].pc = "fastStart"
    /\ \E ok \in BOOLEAN, wrote \in BOOLEAN :
         LET rq == Logged(req[h], "ffmpeg", req[h].tf, ok)
             fastStartVideoFilePath == ProcessingPath(rq.tf)
         IN  /\ fs' = IF ok \/ wrote
                       THEN WriteFile(fs, fastStartVideoFilePath,
                                      IF ok THEN "optimized" ELSE "partial")
                       ELSE fs
             /\ req' = [req EXCEPT ![h] =
                    Defer([rq EXCEPT !.pc = "open", !.fast = fastStartVideoFilePath],
                          [call |-> "Remove", arg |-> fastStartVideoFilePath])]
    /\ UNCHANGED <<db, s3, assets, thumb, started, thumbs, inputs, applied>>

\* Lines 194-200 and 313-323: ffmpeg writes filePath.processing.  When it
\* fails it may have written part of the output; the handler then returns
\* without deferring the removal of that path.
processVideoForFastStart(h) ==
    /\ req[h].pc = "fastStart"
    /\ \E ok \in BOOLEAN, wrote \in BOOLEAN :
         LET rq == Logged(req[h], "ffmpeg", req[h].tf, ok)
             fastStartVideoFilePath == ProcessingPath(rq.tf)
         IN  IF ok
             THEN /\ fs' = WriteFile(fs, fastStartVideoFilePath, "optimized")
                  /\ req' = [req EXCEPT ![h] =
                        Defer([rq EXCEPT !.pc = "open",
                                         !.fast = fastStartVideoFilePath],
                              [call |-> "Remove", arg |-> fastStartVideoFilePath])]
             ELSE /\ fs' = IF wrote
                           THEN WriteFile(fs, fastStartVideoFilePath, "partial")
                           ELSE fs
                  /\ req' = [req EXCEPT ![h] = Respond(rq, 500, "fastStart")]
    /\ UNCHANGED <<db, s3, assets, thumb, started, thumbs, inputs, applied>>

\* Lines 263-281: the three ways getVideoAspectRatio returns an error.
ProbeErrors == {"run", "unmarshal", "no streams"}

\* Lines 259-300: what getVideoAspectRatio returns for one run of ffprobe
\* on filePath: the ratio of Streams[0], or the error of the step that failed.
getVideoAspectRatio(out) ==
    IF ~out.exitOK
    THEN [aspectRatio |-> "", err |-> "run"]
    ELSE IF ~out.jsonOK
    THEN [aspectRatio |-> "", err |-> "unmarshal"]
    ELSE IF Len(out.streams) = 0
    THEN [aspectRatio |-> "", err |-> "no streams"]
    ELSE [aspectRatio |-> normalizedRatio(out.streams[1].width,
                                          out.streams[1].height),
          err |-> ""]

\* OpenAndProbe with the probe run on the optimized copy.
OpenAndProbeOptimizedCopy(h) ==
    /\ req[h].pc = "open"
    /\ \E openOK \in BOOLEAN, randOK \in BOOLEAN, b \in inputs.rands,
          out \in inputs.probes :
         LET opened == openOK /\ req[h].fast \in FsPaths
             r1 == Logged(req[h], "Open", req[h].fast, opened)
             r2 == Defer([r1 EXCEPT !.open = r1.open \cup {"processedVideo"}],
                         [call |-> "Close", arg |-> <<"processedVideo">>])
             r3 == [r2 EXCEPT !.base64Rand = EncodeToString(b)]
             probe == getVideoAspectRatio(out)
             r4 == [Logged(r3, "ffprobe", r3.fast, probe.err \notin ProbeErrors)
                       EXCEPT !.probeData = out]
         IN  req' = [req EXCEPT ![h] =
                IF ~opened THEN Respond(r1, 500, "open")
                ELSE IF ~randOK THEN Respond(r2, 500, "rand")
                ELSE IF probe.err \in ProbeErrors THEN Respond(r4, 500, "probe")
                ELSE [r4 EXCEPT !.pc = "putObject",
                                !.aspectRatio = probe.aspectRatio]]
    /\ UNCHANGED <<db, s3, fs, assets, thumb, started, thumbs, inputs, applied>>

\* Lines 202-224: open the optimized copy, draw the random segment of the
\* key and probe the staged original.
OpenAndProbe(h) ==
    /\ req[h].pc = "open"
    /\ \E openOK \in BOOLEAN, randOK \in BOOLEAN, b \in inputs.rands,
          out \in inputs.probes :
         LET opened == openOK /\ req[h].fast \in FsPaths
             r1 == Logged(req[h], "Open", req[h].fast, opened)
             r2 == Defer([r1 EXCEPT !.open = r1.open \cup {"processedVideo"}],
                         [call |-> "Close", arg |-> <<"processedVideo">>])
             r3 == [r2 EXCEPT !.base64Rand = EncodeToString(b)]
             probe == getVideoAspectRatio(out)
             r4 == [Logged(r3, "ffprobe", r3.tf, probe.err \notin ProbeErrors)
                       EXCEPT !.probeData = out]
         IN  req' = [req EXCEPT ![h] =
                IF ~opened THEN Respond(r1, 500, "open")
                ELSE IF ~randOK THEN Respond(r2, 500, "rand")
                ELSE IF probe.err \in ProbeErrors THEN Respond(r4, 500, "probe")
                ELSE [r4 EXCEPT !.pc = "putObject",
                                !.aspectRatio = probe.aspectRatio]]
    /\ UNCHANGED <<db, s3, fs, assets, thumb, started, thumbs, inputs, applied>>

\* The key ending in the media type instead of the extension.
FileKeyMediaType(rq) ==
    <<getAspectRatioPrefix(rq.aspectRatio), "/">> \o rq.base64Rand
        \o <<".">> \o rq.mediatype

\* Lines 224-226: the key of the object.
FileKey(rq) ==
    <<getAspectRatioPrefix(rq.aspectRatio), "/">> \o rq.base64Rand
        \o <<".">> \o rq.fileExtension

\* PutObject with the locator stored in the record before the upload is known
\* to have succeeded.
PutObjectLocatorFirst(h) ==
    /\ req[h].pc = "putObject"
    /\ \E ok \in BOOLEAN :
         LET fileKey == FileKey(req[h])
             video == [req[h].video EXCEPT !.VideoURL = s3Bucket \o <<",">> \o fileKey]
             rq == Logged([req[h] EXCEPT !.fileKey = fileKey, !.probeData = NoProbe],
                          "PutObject", req[h].fast, ok)
         IN  /\ db' = [db EXCEPT ![video.ID] = video]
             /\ IF ok
                THEN /\ s3' = s3 \cup {[Bucket |-> s3Bucket, Key |-> fileKey]}
                     /\ req' = [req EXCEPT ![h] = [rq EXCEPT !.pc = "updateVideo"]]
                ELSE /\ s3' = s3
                     /\ req' = [req EXCEPT ![h] = Respond(rq, 500, "putObject")]
    /\ UNCHANGED <<fs, assets, thumb, started, thumbs, inputs, applied>>

\* PutObject with its error ignored: the handler goes on to store the locator.
PutObjectErrorIgnored(h) ==
    /\ req[h].pc = "putObject"
    /\ \E ok \in BOOLEAN :
         LET fileKey == FileKey(req[h])
             rq == Logged([req[h] EXCEPT !.fileKey = fileKey, !.probeData = NoProbe],
                          "PutObject", req[h].fast, ok)
         IN  /\ s3' = IF ok THEN s3 \cup {[Bucket |-> s3Bucket, Key |-> fileKey]}
                       ELSE s3
             /\ req' = [req EXCEPT ![h] = [rq EXCEPT !.pc = "updateVideo"]]
    /\ UNCHANGED <<db, fs, assets, thumb, started, thumbs, inputs, applied>>

\* PutObject tried a second time when the first try failed.
PutObjectRetried(h) ==
    /\ req[h].pc = "putObject"
    /\ \E ok \in BOOLEAN :
         LET fileKey == FileKey(req[h])
             rq == Logged([req[h] EXCEPT !.fileKey = fileKey, !.probeData = NoProbe],
                          "PutObject", req[h].fast, ok)
         IN  IF ok
             THEN /\ s3' = s3 \cup {[Bucket |-> s3Bucket, Key |-> fileKey]}
                  /\ req' = [req EXCEPT ![h] = [rq EXCEPT !.pc = "updateVideo"]]
             ELSE /\ s3' = s3
                  /\ req' = [req EXCEPT ![h] =
                        IF \E i \in 1..Len(req[h].log) : req[h].log[i].op = "PutObject"
                        THEN Respond(rq, 500, "putObject")
                        ELSE rq]
    /\ UNCHANGED <<db, fs, assets, thumb, started, thumbs, inputs, applied>>

\* Lines 225-237: upload the optimized copy.  What the probe printed is not
\* kept past this step.
PutObject(h) ==
    /\ req[h].pc = "putObject"
    /\ \E ok \in BOOLEAN :
         LET fileKey == FileKey(req[h])
             rq == Logged([req[h] EXCEPT !.fileKey = fileKey, !.probeData = NoProbe],
                          "PutObject", req[h].fast, ok)
         IN  IF ok
             THEN /\ s3' = s3 \cup {[Bucket |-> s3Bucket, Key |-> fileKey]}
                  /\ req' = [req EXCEPT ![h] = [rq EXCEPT !.pc = "updateVideo"]]
             ELSE /\ s3' = s3
                  /\ req' = [req EXCEPT ![h] = Respond(rq, 500, "putObject")]
    /\ UNCHANGED <<db, fs, assets, thumb, started, thumbs, inputs, applied>>

\* Line 241: the locator stored in the record.
Locator(bucket, key) == Join(<<bucket, key>>, ",")

\* UpdateVideo with the record's locator already replaced by the signed URL.
UpdateVideoSigned(h) ==
    /\ req[h].pc = "updateVideo"
    /\ \E ok \in BOOLEAN :
         LET videoURL == generatePresignedURL(s3Bucket, req[h].fileKey, presignSeconds)
             video == [req[h].video EXCEPT !.VideoURL = videoURL]
             rq == Logged([req[h] EXCEPT !.video = video], "UpdateVideo", <<>>, ok)
         IN  IF ok
             THEN /\ db' = UpdateVideoDB(db, video)
                  /\ req' = [req EXCEPT ![h] = [rq EXCEPT !.pc = "sign"]]
             ELSE /\ db' = db
                  /\ req' = [req EXCEPT ![h] = Respond(rq, 500, "updateVideo")]
    /\ UNCHANGED <<s3, fs, assets, thumb, started, thumbs, inputs, applied>>

\* Lines 239-247: store the locator with the record fetched at line 125.
UpdateVideo(h) ==
    /\ req[h].pc = "updateVideo"
    /\ \E ok \in BOOLEAN :
         LET videoURL == Locator(s3Bucket, req[h].fileKey)
             video == [req[h].video EXCEPT !.VideoURL = videoURL]
             rq == Logged([req[h] EXCEPT !.video = video], "UpdateVideo", <<>>, ok)
         IN  IF ok
             THEN /\ db' = UpdateVideoDB(db, video)
                  /\ req' = [req EXCEPT ![h] = [rq EXCEPT !.pc = "sign"]]
             ELSE /\ db' = db
                  /\ req' = [req EXCEPT ![h] = Respond(rq, 500, "updateVideo")]
    /\ UNCHANGED <<s3, fs, assets, thumb, started, thumbs, inputs, applied>>

\* dbVideoToSignedVideo accepting any locator of two fields or more and
\* signing the first two.
dbVideoToSignedVideoTruncating(video, signOK) ==
    LET parts == Split(video.VideoURL, ",")
    IN  IF Len(parts) < 2 THEN [video |-> video, err |-> TRUE]
        ELSE IF ~signOK THEN [video |-> video, err |-> TRUE]
        ELSE [video |-> [video EXCEPT !.VideoURL =
                            generatePresignedURL(parts[1], parts[2], presignSeconds)],
              err |-> FALSE]

\* Lines 339-356: the copy of the record with its locator replaced by a
\* presigned URL; an error when the locator does not split in two fields or
\* signing fails.
dbVideoToSignedVideo(video, signOK) ==
    LET parts == Split(video.VideoURL, ",")
    IN  IF Len(parts) # 2 THEN [video |-> video, err |-> TRUE]
        ELSE IF ~signOK THEN [video |-> video, err |-> TRUE]
        ELSE [video |-> [video EXCEPT !.VideoURL =
                            generatePresignedURL(parts[1], parts[2], presignSeconds)],
              err |-> FALSE]

\* Lines 249-256: sign the locator for the response.
SignAndRespond(h) ==
    /\ req[h].pc = "sign"
    /\ \E signOK \in BOOLEAN :
         LET signed == dbVideoToSignedVideo(req[h].video, signOK)
             rq == Logged(req[h], "presign", <<>>, ~signed.err)
         IN  req' = [req EXCEPT ![h] =
                IF signed.err
                THEN Respond(rq, 500, "sign")
                ELSE Respond([rq EXCEPT !.resp = signed.video], 200, "")]
    /\ UNCHANGED <<db, s3, fs, assets, thumb, started, thumbs, inputs, applied>>

\* One deferred call (lines 157, 179, 180, 200, 207), the last registered.
RunOne(rq) ==
    LET n == Len(rq.defers)
        d == rq.defers[n]
    IN  [Logged(rq, d.call, d.arg, TRUE) EXCEPT
            !.defers = SubSeq(rq.defers, 1, n - 1),
            !.open = IF d.call = "Close" THEN rq.open \ {d.arg[1]} ELSE rq.open]

\* The deferred Close calls on top of the stack, which act on the request's
\* own handles.
RECURSIVE RunCloses(_)
RunCloses(rq) ==
    IF rq.defers # <<>> /\ rq.defers[Len(rq.defers)].call = "Close"
    THEN RunCloses(RunOne(rq))
    ELSE rq

\* On return the deferred calls run last registered first: this step runs
\* them up to and including the next os.Remove.
RunDeferred(h) ==
    /\ req[h].pc = "return"
    /\ LET rq == RunCloses(req[h])
       IN  /\ rq.defers # <<>>
           /\ fs' = Remove(fs, rq.defers[Len(rq.defers)].arg)
           /\ req' = [req EXCEPT ![h] = RunOne(rq)]
    /\ UNCHANGED <<db, s3, assets, thumb, started, thumbs, inputs, applied>>

\* The handler returns once the last deferred calls have run.
Return(h) ==
    /\ req[h].pc = "return"
    /\ LET rq == RunCloses(req[h])
       IN  /\ rq.defers = <<>>
           /\ req' = [req EXCEPT ![h] = Returned(rq)]
    /\ UNCHANGED <<db, s3, fs, assets, thumb, started, thumbs, inputs, applied>>

----------------------------------------------------------------------------
\* handlerUploadThumbnail.

\* Lines 16-66: validate the request, read the form and fetch the record.
ThumbGetVideo ==
    /\ thumb.pc = "idle"
    /\ thumbs < MaxThumbs
    /\ thumbs' = thumbs + 1
    /\ \E videoIDString \in VideoIDs \cup {"v0", "not-a-uuid"},
          token \in Users \cup {"none"},
          formOK \in BOOLEAN,
          mediaType \in inputs.thumbTypes :
         thumb' =
            IF videoIDString = "not-a-uuid"
            THEN [IdleThumb EXCEPT !.pc = "return", !.status = 400]
            ELSE IF token = "none"
            THEN [IdleThumb EXCEPT !.pc = "return", !.status = 401]
            ELSE IF ~formOK
            THEN [IdleThumb EXCEPT !.pc = "return", !.status = 400]
            ELSE IF videoIDString \notin DOMAIN db
            THEN [IdleThumb EXCEPT !.pc = "return", !.status = 404]
            ELSE IF GetVideoDB(db, videoIDString).UserID # token
            THEN [IdleThumb EXCEPT !.pc = "return", !.status = 401]
            ELSE [IdleThumb EXCEPT !.pc = "create", !.mediaType = mediaType,
                                   !.video = GetVideoDB(db, videoIDString)]
    /\ UNCHANGED <<db, s3, fs, assets, req, started, inputs, applied>>

\* Lines 67-78: write the thumbnail under the assets root.
ThumbCreateFile ==
    /\ thumb.pc = "create"
    /\ \E ok \in BOOLEAN :
         LET fileName == <<thumb.video.ID, ".">> \o getFileExtension(thumb.mediaType)
         IN  IF ok
             THEN /\ assets' = assets \cup {fileName}
                  /\ thumb' = [thumb EXCEPT !.pc = "update", !.fileName = fileName]
             ELSE /\ assets' = assets
                  /\ thumb' = [IdleThumb EXCEPT !.pc = "return", !.status = 500]
    /\ UNCHANGED <<db, s3, fs, req, started, thumbs, inputs, applied>>

\* Line 80: the URL stored for the thumbnail.
ThumbnailURL(videoID, mediaType) ==
    <<"http:", "/", "/", "localhost", ":", port, "/", "assets", "/", videoID, ".">>
        \o mediaType

\* Lines 80-88: store the thumbnail URL with the record fetched at line 57.
ThumbUpdateVideo ==
    /\ thumb.pc = "update"
    /\ \E ok \in BOOLEAN :
         LET video == [thumb.video EXCEPT
                          !.ThumbnailURL = ThumbnailURL(thumb.video.ID, thumb.mediaType)]
         IN  IF ok
             THEN /\ db' = UpdateVideoDB(db, video)
                  /\ thumb' = [thumb EXCEPT !.pc = "return", !.video = video,
                                            !.status = 200]
             ELSE /\ db' = db
                  /\ thumb' = [IdleThumb EXCEPT !.pc = "return", !.status = 500]
    /\ UNCHANGED <<s3, fs, assets, req, started, thumbs, inputs, applied>>

\* The handler returns: the deferred Close calls of lines 49-53 and 73 act on
\* its own handles only.
ThumbReturn ==
    /\ thumb.pc = "return"
    /\ thumb' = IdleThumb
    /\ UNCHANGED <<db, s3, fs, assets, req, started, thumbs, inputs, applied>>

----------------------------------------------------------------------------
Next ==
    \/ \E h \in Handlers :
         \/ GetVideo(h)
         \/ Validate(h)
         \/ CreateTemp(h)
         \/ CopyToTemp(h)
         \/ processVideoForFastStart(h)
         \/ OpenAndProbe(h)
         \/ PutObject(h)
         \/ UpdateVideo(h)
         \/ SignAndRespond(h)
         \/ RunDeferred(h)
         \/ Return(h)
    \/ ThumbGetVideo
    \/ ThumbCreateFile
    \/ ThumbUpdateVideo
    \/ ThumbReturn

Spec == Init /\ [][Next]_vars
SpecSerial == InitSerial /\ [][Next]_vars

----------------------------------------------------------------------------
\* The locator on its own: line 241 joins a bucket and a key, and
\* dbVideoToSignedVideo splits whatever string the record holds.

\* The strings of at most n tokens over an alphabet.
Strings(alphabet, n) == UNION {[1..k -> alphabet] : k \in 0..n}

\* Buckets and keys: strings without a comma.
Fields == Strings({"b", "/", "."}, MaxLen)
\* Values a record's VideoURL may hold, with any number of commas.
StoredStrings == Strings({"b", ","}, MaxLen + 2)

LocatorCall(fn, bucket, key, url) ==
    [fn |-> fn, bucket |-> bucket, key |-> key, url |-> url,
     signOK |-> FALSE, signed |-> Null, err |-> FALSE]

InitLocator ==
    /\ InitStore
    /\ inputs = ConcurrentInputs
    /\ applied \in {LocatorCall("pair", b, k, Null) : b \in Fields, k \in Fields}
               \cup {LocatorCall("locator", Null, Null, u) : u \in StoredStrings}

\* Line 241 on a bucket and a key.
JoinLocator ==
    /\ applied.fn = "pair"
    /\ applied' = [applied EXCEPT !.fn = "locator",
                                !.url = Locator(applied.bucket, applied.key)]
    /\ UNCHANGED <<db, s3, fs, assets, req, thumb, started, thumbs, inputs>>

\* dbVideoToSignedVideo on a record holding the string.
SignLocator ==
    /\ applied.fn = "locator"
    /\ \E signOK \in BOOLEAN :
         LET r == dbVideoToSignedVideo([NoVideo EXCEPT !.VideoURL = applied.url], signOK)
         IN  applied' = [applied EXCEPT !.fn = "signed", !.signOK = signOK,
                                  !.signed = r.video.VideoURL, !.err = r.err]
    /\ UNCHANGED <<db, s3, fs, assets, req, thumb, started, thumbs, inputs>>

NextLocator == JoinLocator \/ SignLocator

SpecLocator == InitLocator /\ [][NextLocator]_vars

----------------------------------------------------------------------------
\* The classification on its own: getVideoAspectRatio on a file whose first
\* stream has the given width and height, then getAspectRatioPrefix.

Extents == (0 - MaxDim)..MaxDim

AspectCall(fn, width, height) ==
    [fn |-> fn, width |-> width, height |-> height, aspectRatio |-> "",
     prefix |-> ""]

InitAspect ==
    /\ InitStore
    /\ inputs = ConcurrentInputs
    /\ applied \in {AspectCall("dims", w, h) : w \in Extents, h \in Extents}
                  \cup {AspectCall("dims", d[1], d[2]) : d \in Dims}

\* Lines 259-300 on a file with one video stream.
ProbeRatio ==
    /\ applied.fn = "dims"
    /\ LET out == ProbeOutput(TRUE, TRUE,
                              <<VideoStream(applied.width, applied.height)>>)
       IN  applied' = [applied EXCEPT !.fn = "ratio",
                          !.aspectRatio = getVideoAspectRatio(out).aspectRatio]
    /\ UNCHANGED <<db, s3, fs, assets, req, thumb, started, thumbs, inputs>>

\* Line 224.
AspectPrefix ==
    /\ applied.fn = "ratio"
    /\ applied' = [applied EXCEPT !.fn = "prefix",
                      !.prefix = getAspectRatioPrefix(applied.aspectRatio)]
    /\ UNCHANGED <<db, s3, fs, assets, req, thumb, started, thumbs, inputs>>

NextAspect == ProbeRatio \/ AspectPrefix

SpecAspect == InitAspect /\ [][NextAspect]_vars

----------------------------------------------------------------------------
\* Properties.

HasEvent(log, op) == \E i \in 1..Len(log) : log[i].op = op
HasOK(log, op) == \E i \in 1..Len(log) : log[i].op = op /\ log[i].ok
HasFailed(log, op) == \E i \in 1..Len(log) : log[i].op = op /\ ~log[i].ok

\* C1: a stored locator always names an object whose PutObject has completed:
\* in every reachable state, a non-null VideoURL of the store is the locator
\* of a bucket and key present in the object store.
C1_LocatorDenotesStoredObject ==
    \A v \in DOMAIN db :
        db[v].VideoURL # Null =>
            \E o \in s3 : db[v].VideoURL = Locator(o.Bucket, o.Key)

C1_Witness == \E v \in DOMAIN db : db[v].VideoURL # Null

\* C2: a request whose authenticated principal is not the owner of the record
\* is answered 401 and has done nothing else: no file created, no tool run,
\* no PutObject, no UpdateVideo, nothing opened or deferred.
C2_OwnerCheckedFirst ==
    \A h \in Handlers :
        (req[h].userID # "" /\ req[h].userID # db[req[h].videoID].UserID) =>
            /\ req[h].pc = "return"
            /\ req[h].status = 401
            /\ req[h].log = <<>>
            /\ req[h].tf = NoFile
            /\ req[h].open = {}
            /\ req[h].defers = <<>>

C2_Witness ==
    \E h \in Handlers :
        /\ req[h].pc = "return" /\ req[h].failedAt = "owner"
        /\ req[h].userID = "u2" /\ db[req[h].videoID].UserID = "u1"

\* C3: once the remux tool has failed for a request, the request is on its way
\* out with status 500 and has issued neither a PutObject nor an UpdateVideo,
\* so it leaves the stored locator as it was.
C3_RemuxFailureIsAtomic ==
    \A h \in Handlers :
        HasFailed(req[h].log, "ffmpeg") =>
            /\ req[h].pc = "return"
            /\ req[h].status = 500
            /\ ~HasEvent(req[h].log, "PutObject")
            /\ ~HasEvent(req[h].log, "UpdateVideo")

C3_Witness ==
    \E h \in Handlers :
        /\ req[h].pc = "return" /\ req[h].failedAt = "fastStart"
        /\ HasFailed(req[h].log, "ffmpeg")

\* The request is about to return: only Close calls are left to run.
AboutToReturn(h) == req[h].pc = "return" /\ RunCloses(req[h]).defers = <<>>

\* C4: when a request returns, after a failure at any stage or after success,
\* neither its staged file nor the file at <staged path>.processing exists.
C4_NoTempFileRemains ==
    \A h \in Handlers :
        (AboutToReturn(h) /\ req[h].tf # NoFile) =>
            /\ req[h].tf \notin FsPaths
            /\ ProcessingPath(req[h].tf) \notin FsPaths

\* The stages that can fail between the start of staging and the success of
\* UpdateVideo.
StagesBeforeUpdate ==
    {"copy", "seek", "fastStart", "open", "rand", "probe", "putObject", "updateVideo"}

\* C5: a request that fails at a stage from the staging copy to UpdateVideo
\* has not stored a locator, and none of its steps on the way out changes the
\* store.
C5_FailureLeavesLocator ==
    [][\A h \in Handlers :
          (req'[h].pc = "return" /\ req'[h].failedAt \in StagesBeforeUpdate) =>
              /\ ~HasOK(req'[h].log, "UpdateVideo")
              /\ (req'[h] # req[h] => db' = db)]_vars

C5_Witness ==
    \E h \in Handlers :
        /\ req[h].pc = "return" /\ req[h].failedAt = "putObject"
        /\ HasFailed(req[h].log, "PutObject")

\* C6: the UpdateVideo of an upload request changes no field of the stored
\* record other than VideoURL.
C6_OnlyLocatorWritten ==
    [][\A h \in Handlers :
          (req[h].pc = "updateVideo" /\ req'[h].pc = "sign") =>
              \A v \in DOMAIN db :
                  /\ db'[v].ThumbnailURL = db[v].ThumbnailURL
                  /\ db'[v].UserID = db[v].UserID
                  /\ db'[v].ID = db[v].ID]_vars

AspectPrefixes == {"landscape", "portrait", "other"}

\* A string of the form <bucket>,<key> for the configured bucket.
IsLocator(u) ==
    LET parts == Split(u, ",")
    IN  /\ Len(parts) = 2
        /\ parts[1] = s3Bucket
        /\ Len(parts[2]) > 0 /\ parts[2][1] \in AspectPrefixes
        /\ u[1] # "https:"

\* C7: the VideoURL of the store is null or a locator <bucket>,<key>, never a
\* signed URL; the record a request gave to UpdateVideo holds the locator of
\* its own key; the signed URL appears in the response only, where it is
\* issued for a stored object.
C7_StoredLocatorNeverSigned ==
    /\ \A v \in DOMAIN db : db[v].VideoURL = Null \/ IsLocator(db[v].VideoURL)
    /\ \A h \in Handlers :
         /\ req[h].pc = "sign" =>
                req[h].video.VideoURL = Locator(s3Bucket, req[h].fileKey)
         /\ (req[h].pc = "return" /\ req[h].status = 200) =>
                /\ ~IsLocator(req[h].resp.VideoURL)
                /\ \E o \in s3 : req[h].resp.VideoURL =
                       generatePresignedURL(o.Bucket, o.Key, presignSeconds)

C7_Witness ==
    \E h \in Handlers :
        /\ req[h].pc = "return" /\ req[h].status = 200
        /\ req[h].resp.VideoURL[1] = "https:"
        /\ IsLocator(db[req[h].videoID].VideoURL)

\* The staged path and the optimized path of a request.
TempPaths(rq) == {rq.tf, ProcessingPath(rq.tf)}

\* The request has created its temporary file and has not returned.
Executing(h) == req[h].pc # "idle" /\ req[h].tf # NoFile

\* The request has created its temporary file and its deferred removal has
\* not run yet.
Holding(h) ==
    /\ req[h].tf # NoFile
    /\ \E i \in 1..Len(req[h].defers) :
           req[h].defers[i] = [call |-> "Remove", arg |-> req[h].tf]

\* C8 as stated: any two requests that are executing have disjoint temporary
\* paths.
C8_ExecutingPathsDistinct ==
    \A h1, h2 \in Handlers :
        (h1 # h2 /\ Executing(h1) /\ Executing(h2)) =>
            TempPaths(req[h1]) \cap TempPaths(req[h2]) = {}

\* C8 amended: any two requests that both still hold their staged file (its
\* deferred removal has not run) have disjoint temporary paths, and every
\* path either of them holds exists under one name only.
C8_HeldPathsDistinct ==
    \A h1, h2 \in Handlers :
        (h1 # h2 /\ Holding(h1) /\ Holding(h2)) =>
            /\ TempPaths(req[h1]) \cap TempPaths(req[h2]) = {}
            /\ req[h1].tf \in FsPaths /\ req[h2].tf \in FsPaths

C8_Witness ==
    \E h1, h2 \in Handlers :
        /\ h1 # h2 /\ Holding(h1) /\ Holding(h2)
        /\ req[h1].fast # NoFile /\ req[h2].fast # NoFile

\* C9: an upload whose body exceeds the ceiling never completes staging.
C9_OversizeNeverStaged ==
    \A h \in Handlers :
        req[h].size > maxMemory => ~HasOK(req[h].log, "Copy")

\* The declared values that parse, without error, to video/mp4.
AcceptedHeaders ==
    { <<"video", "/", "mp4">>,
      <<"VIDEO", "/", "MP4">>,
      <<"video", "/", "mp4", ";", "codecs", "=", "avc1">> }

\* C10: a request goes past the media type check only when the declared
\* value parses to video/mp4; with any other or malformed value it is
\* answered 400 having created no file, run no tool, stored nothing.
C10_OnlyMp4Accepted ==
    \A h \in Handlers :
        req[h].contentType # Null =>
            IF req[h].contentType \in AcceptedHeaders
            THEN /\ req[h].failedAt \notin {"parseMediaType", "mediaType"}
                 /\ req[h].pc # "return" => req[h].mediatype = <<"video", "/", "mp4">>
            ELSE /\ req[h].pc = "return"
                 /\ req[h].status = 400
                 /\ req[h].failedAt \in {"parseMediaType", "mediaType"}
                 /\ req[h].log = <<>>
                 /\ req[h].tf = NoFile

C10_Witness ==
    \E h \in Handlers :
        /\ req[h].contentType = <<"video", "/", "mp4", ";", "codecs">>
        /\ req[h].pc = "return" /\ req[h].status = 400

\* The number of commas of a string.
Commas(u) == Cardinality({i \in 1..Len(u) : u[i] = ","})

\* C11: a bucket and a key without a comma, joined as line 241 does and given
\* to dbVideoToSignedVideo, are signed as that bucket and that key; a stored
\* string with no comma or with more than one makes dbVideoToSignedVideo
\* return an error and the string unchanged, nothing being signed.
C11_LocatorRoundTrip ==
    applied.fn = "signed" =>
        /\ applied.bucket # Null =>
              /\ Commas(applied.url) = 1
              /\ applied.url = applied.bucket \o <<",">> \o applied.key
              /\ applied.err = ~applied.signOK
              /\ applied.signOK =>
                    applied.signed = generatePresignedURL(applied.bucket, applied.key,
                                                       presignSeconds)
        /\ Commas(applied.url) # 1 =>
              /\ applied.err
              /\ applied.signed = applied.url

C11_Witness ==
    /\ applied.fn = "signed" /\ applied.bucket # Null /\ applied.signOK
    /\ Len(applied.bucket) = MaxLen /\ Len(applied.key) = MaxLen
    /\ applied.signed[1] = "https:"

\* lo/den <= width/height <= hi/den as rationals, for a non-zero height.
WithinBand(width, height, lo, hi, den) ==
    /\ height # 0
    /\ lo * height * height <= den * width * height
    /\ den * width * height <= hi * height * height

\* C12: for every width and height the prefix is landscape exactly when
\* 16/9 - 0.1 <= width/height <= 16/9 + 0.1, portrait exactly when
\* 9/16 - 0.1 <= width/height <= 9/16 + 0.1 and other in every remaining
\* case, a zero height included; the two bands share no pair; 1920x1080 is
\* landscape, 1080x1920 portrait, 1000x1000 other.
C12_ThreeWayClassification ==
    applied.fn = "prefix" =>
        LET w == applied.width
            h == applied.height
            landscape == WithinBand(w, h, 151, 169, 90)
            portrait  == WithinBand(w, h, 37, 53, 80)
        IN  /\ ~(landscape /\ portrait)
            /\ applied.prefix = "landscape" <=> landscape
            /\ applied.prefix = "portrait" <=> portrait
            /\ applied.prefix = "other" <=> (~landscape /\ ~portrait)
            /\ h = 0 => applied.prefix = "other"
            /\ <<w, h>> = <<1920, 1080>> => applied.prefix = "landscape"
            /\ <<w, h>> = <<1080, 1920>> => applied.prefix = "portrait"
            /\ <<w, h>> = <<1000, 1000>> => applied.prefix = "other"

C12_Witness ==
    /\ applied.fn = "prefix"
    /\ applied.width = 169 /\ applied.height = 90
    /\ applied.prefix = "landscape"

\* The positions of the video streams among the streams that were printed.
VideoStreams(out) ==
    {i \in 1..Len(out.streams) : out.streams[i].codec_type = "video"}
FirstVideoStream(out) ==
    out.streams[CHOOSE i \in VideoStreams(out) : \A j \in VideoStreams(out) : i <= j]

\* C13: when the probe has run for a request, then either the tool failed,
\* its output did not parse or it listed no video stream, and the request is
\* returning 500 from the probe without a PutObject; or the request goes on
\* with the ratio of the width and height of the first video stream.
C13_ProbeErrorsAndFirstVideoStream ==
    \A h \in Handlers :
        req[h].probeData # NoProbe =>
            LET out == req[h].probeData
            IN  IF ~out.exitOK \/ ~out.jsonOK \/ VideoStreams(out) = {}
                THEN /\ req[h].pc = "return"
                     /\ req[h].failedAt = "probe"
                     /\ req[h].status = 500
                     /\ ~HasEvent(req[h].log, "PutObject")
                ELSE /\ req[h].pc = "putObject"
                     /\ req[h].aspectRatio =
                            normalizedRatio(FirstVideoStream(out).width,
                                            FirstVideoStream(out).height)

\* The step that failed, for the failures of a step that is recorded.
StageOp ==
    [ copy |-> "Copy", seek |-> "Seek", fastStart |-> "ffmpeg", open |-> "Open",
      probe |-> "ffprobe", putObject |-> "PutObject",
      updateVideo |-> "UpdateVideo", sign |-> "presign" ]
RecordedOps == {StageOp[k] : k \in DOMAIN StageOp}

\* The documented status of each cause.
DocumentedStatus(cause) ==
    CASE cause \in {"id", "formFile", "parseMediaType", "mediaType"} -> 400
      [] cause \in {"token", "jwt", "owner"} -> 401
      [] cause = "getVideo" -> 404
      [] cause \in {"createTemp", "rand"} \cup DOMAIN StageOp -> 500
      [] cause = "" -> 200

\* C14: a request that is returning answers with the documented status of
\* the step that failed: 400 for the ID, the form file and the media type,
\* 401 for the token and the owner, 404 for the record, 500 for every later
\* step, whose failure is the last thing it did; it answers 200 only when
\* every step succeeded, and a failed step always ends in a 500.
C14_StatusOfEveryExit ==
    \A h \in Handlers :
        /\ req[h].pc = "return" =>
              /\ req[h].status = DocumentedStatus(req[h].failedAt)
              /\ req[h].failedAt = "id" <=> req[h].videoID = "not-a-uuid"
              /\ req[h].failedAt = "owner" =>
                    req[h].userID # db[req[h].videoID].UserID
              /\ req[h].failedAt \in {"parseMediaType", "mediaType"} <=>
                    (req[h].contentType # Null
                        /\ req[h].contentType \notin AcceptedHeaders)
              /\ req[h].failedAt \in DOMAIN StageOp =>
                    HasFailed(req[h].log, StageOp[req[h].failedAt])
              /\ req[h].status = 200 <=>
                    \A op \in RecordedOps : HasOK(req[h].log, op)
        /\ \A op \in RecordedOps :
              HasFailed(req[h].log, op) =>
                  /\ req[h].pc = "return"
                  /\ req[h].status = 500
                  /\ req[h].failedAt \in DOMAIN StageOp
                  /\ StageOp[req[h].failedAt] = op

C14_Witness ==
    \E h \in Handlers :
        /\ req[h].pc = "return" /\ req[h].status = 500
        /\ req[h].failedAt = "copy" /\ HasFailed(req[h].log, "Copy")

\* C15: a request whose every step succeeded, the signing included, answers
\* 200 with the record it persisted, its VideoURL replaced by a GET URL
\* signed for the configured bucket and the key this request gave to
\* PutObject and stored in the locator, valid for 60 seconds.
C15_SuccessReturnsOwnSignedURL ==
    [][\A h \in Handlers :
          /\ (req[h].pc = "updateVideo" /\ req'[h].pc = "sign") =>
                db'[req[h].videoID].VideoURL = Locator(s3Bucket, req[h].fileKey)
          /\ (req[h].pc = "sign" /\ req'[h].pc = "return") =>
                /\ \A op \in RecordedOps \ {"presign"} : HasOK(req[h].log, op)
                /\ req[h].mediatype = <<"video", "/", "mp4">>
                /\ req[h].userID = req[h].video.UserID
                /\ [Bucket |-> s3Bucket, Key |-> req[h].fileKey] \in s3
                /\ req[h].video.VideoURL = Locator(s3Bucket, req[h].fileKey)
                /\ HasOK(req'[h].log, "presign") <=> req'[h].status = 200
                /\ req'[h].status = 200 =>
                      /\ req'[h].resp =
                            [req[h].video EXCEPT !.VideoURL =
                                generatePresignedURL(s3Bucket, req[h].fileKey,
                                                     presignSeconds)]
                      /\ req'[h].resp.VideoURL[Len(req'[h].resp.VideoURL)] = "60"
      ]_vars

C15_Witness ==
    \E h \in Handlers :
        /\ req[h].pc = "return" /\ req[h].status = 200
        /\ HasOK(req[h].log, "presign")
        /\ req[h].resp.ID = req[h].videoID
        /\ \E o \in s3 : req[h].resp.VideoURL =
               generatePresignedURL(o.Bucket, o.Key, presignSeconds)

\* The number of "/" of a media type.
Slashes(m) == Cardinality({i \in 1..Len(m) : m[i] = "/"})

\* C16: the key a request gives to PutObject is <prefix>/<segment>.<ext>:
\* the prefix is the aspect bucket of what the probe printed for the staged
\* file, the segment is the encoding of the bytes rand.Read gave this
\* request, the extension is getFileExtension of the accepted media type,
\* mp4; and getFileExtension gives what follows the "/" of a media type with
\* exactly one "/" and bin for any other.
C16_KeyForm ==
    [][\A h \in Handlers :
          (req[h].pc = "putObject" /\ req'[h] # req[h]) =>
              LET rq == req[h]
                  first == rq.probeData.streams[1]
                  prefix == getAspectRatioPrefix(
                                normalizedRatio(first.width, first.height))
                  key == <<prefix, "/">> \o rq.base64Rand \o <<".", "mp4">>
              IN  /\ prefix \in AspectPrefixes
                  /\ \E b \in Rands : rq.base64Rand = EncodeToString(b)
                  /\ rq.mediatype = <<"video", "/", "mp4">>
                  /\ rq.fileExtension = <<"mp4">>
                  /\ HasEvent(req'[h].log, "PutObject")
                  /\ req'[h].pc = "updateVideo" =>
                        /\ req'[h].fileKey = key
                        /\ [Bucket |-> s3Bucket, Key |-> key] \in s3'
                        /\ s3' \ s3 \subseteq {[Bucket |-> s3Bucket, Key |-> key]}
                  /\ req'[h].pc # "updateVideo" => s3' = s3
                  /\ \A m \in ContentTypes \cup ThumbTypes :
                        getFileExtension(m) =
                            IF Slashes(m) = 1
                            THEN SubSeq(m, 1 + CHOOSE i \in 1..Len(m) : m[i] = "/",
                                        Len(m))
                            ELSE <<"bin">>
      ]_vars

C16_Witness ==
    /\ [Bucket |-> s3Bucket, Key |-> <<"portrait", "/", "rnd", "1", ".", "mp4">>]
           \in s3
    /\ \E h \in Handlers :
           req[h].pc = "updateVideo" /\ req[h].fileKey[1] = "portrait"

\* The steps that read or write the staged file.
StagedFileOps == {"Copy", "Seek", "ffmpeg", "ffprobe"}

\* In the log, the close of the staged file's handle comes before the
\* removal of the staged file, and both after every step on the staged file.
CloseThenRemove(log, tf) ==
    \A j \in 1..Len(log) :
        /\ log[j] = Event("Remove", tf, TRUE) =>
              \E i \in 1..(j - 1) : log[i] = Event("Close", <<"tf">>, TRUE)
        /\ log[j] \in {Event("Remove", tf, TRUE), Event("Close", <<"tf">>, TRUE)} =>
              \A k \in j..Len(log) : log[k].op \notin StagedFileOps

\* C17: a request that created its temporary file closes the handle and
\* removes the file on its way out only, the close before the removal and
\* both after the last step on the file; when it returns both have happened,
\* whatever the step that ended it, and the path exists only if another
\* request has since created a file of that name.
C17_StagedFileReleasedOnExit ==
    \A h \in Handlers :
        req[h].tf # NoFile =>
            LET log == IF req[h].pc = "return" THEN RunCloses(req[h]).log
                       ELSE req[h].log
            IN  /\ CloseThenRemove(log, req[h].tf)
                /\ req[h].pc # "return" =>
                      /\ ~HasEvent(log, "Close") /\ ~HasEvent(log, "Remove")
                      /\ "tf" \in req[h].open
                      /\ req[h].tf \in FsPaths
                /\ AboutToReturn(h) =>
                      /\ \E i \in 1..Len(log) : log[i] = Event("Close", <<"tf">>, TRUE)
                      /\ \E j \in 1..Len(log) : log[j] = Event("Remove", req[h].tf, TRUE)
                      /\ "tf" \notin RunCloses(req[h]).open
                      /\ req[h].tf \in FsPaths =>
                            \E g \in Handlers \ {h} :
                                Holding(g) /\ req[g].tf = req[h].tf

C17_Witness ==
    \E h \in Handlers :
        /\ AboutToReturn(h) /\ req[h].tf # NoFile
        /\ req[h].failedAt = "probe"
        /\ HasEvent(req[h].log, "Remove")

\* The side effects of one request, in the order the claim gives them.
PipelineOps ==
    <<"Copy", "Seek", "ffmpeg", "ffprobe", "PutObject", "UpdateVideo", "presign">>
IsPipelineOp(e) == \E i \in 1..Len(PipelineOps) : e.op = PipelineOps[i]

\* C18: the side effects a request has had so far are the first ones of:
\* copy to the temporary file, rewind, remux of the staged file, probe of
\* the staged file, PutObject of the optimized copy, UpdateVideo, signing;
\* each one ran after all the earlier ones had succeeded, and the probe ran
\* on the staged path, not on the optimized one.
C18_SideEffectsInOrder ==
    \A h \in Handlers :
        LET steps == SelectSeq(req[h].log, IsPipelineOp)
        IN  /\ Len(steps) <= Len(PipelineOps)
            /\ \A i \in 1..Len(steps) :
                  /\ steps[i].op = PipelineOps[i]
                  /\ i < Len(steps) => steps[i].ok
                  /\ steps[i].op \in {"Copy", "Seek", "ffmpeg", "ffprobe"} =>
                        /\ steps[i].arg = req[h].tf
                        /\ steps[i].arg # ProcessingPath(req[h].tf)
                  /\ steps[i].op = "PutObject" =>
                        /\ steps[i].arg = ProcessingPath(req[h].tf)
                        /\ steps[i].arg = req[h].fast
            /\ (steps # <<>> /\ ~steps[Len(steps)].ok) => req[h].pc = "return"

C18_Witness ==
    \E h \in Handlers :
        LET steps == SelectSeq(req[h].log, IsPipelineOp)
        IN  /\ Len(steps) = Len(PipelineOps)
            /\ steps[4] = Event("ffprobe", req[h].tf, TRUE)
            /\ steps[5] = Event("PutObject", ProcessingPath(req[h].tf), TRUE)

\* How many times a step appears in a log.
Count(log, op) == Cardinality({i \in 1..Len(log) : log[i].op = op})

\* C19: a request runs the remux tool, the probe, PutObject and UpdateVideo
\* at most once each; after a PutObject that failed it is returning and has
\* made no other PutObject and no UpdateVideo.
C19_AtMostOnceNoRetry ==
    \A h \in Handlers :
        /\ \A op \in {"ffmpeg", "ffprobe", "PutObject", "UpdateVideo"} :
              Count(req[h].log, op) <= 1
        /\ HasFailed(req[h].log, "PutObject") =>
              /\ req[h].pc = "return"
              /\ req[h].failedAt = "putObject"
              /\ ~HasOK(req[h].log, "PutObject")
              /\ Count(req[h].log, "UpdateVideo") = 0

C19_Witness ==
    \E h \in Handlers :
        /\ AboutToReturn(h)
        /\ HasFailed(req[h].log, "PutObject")
        /\ Count(req[h].log, "PutObject") = 1
        /\ Count(req[h].log, "ffmpeg") = 1 /\ Count(req[h].log, "ffprobe") = 1

\* The last segment of a path or URL: what follows its last "/".
LastSegment(u) ==
    LET parts == Split(u, "/")
    IN  parts[Len(parts)]

\* C20: a thumbnail request that succeeded stored a ThumbnailURL whose last
\* path segment is the name of the file it wrote under the assets root,
\* <videoID>.<extension>.
C20_ThumbnailURLAddressesFile ==
    (thumb.pc = "return" /\ thumb.status = 200) =>
        /\ thumb.fileName \in assets
        /\ thumb.fileName = <<thumb.video.ID, ".">> \o getFileExtension(thumb.mediaType)
        /\ LastSegment(thumb.video.ThumbnailURL) = thumb.fileName

====
